---- MODULE Spec2Model ----
(***************************************************************************)
(* Model of bv::sls_valuation (src/src/ast/sls/sls_valuation.cpp): one     *)
(* bit-vector variable of width bw with its interval [m_lo, m_hi), its     *)
(* committed assignment m_bits, its mask of fixed bits and the working     *)
(* assignment eval.                                                        *)
(*                                                                         *)
(* A bvect is modelled as the unsigned number its nw words of W bits spell *)
(* (word i is (v \div 2^(W*i)) % 2^W), overflow bits of the top word       *)
(* included.  A word-wise loop "for i < nw: a[i] = b[i] & c[i]" is the     *)
(* same bit operation on the whole number.                                 *)
(***************************************************************************)
EXTENDS Integers, FiniteSets, Sequences, TLC

\* Width of the modelled variable (constructor argument bw).
BW == 3
\* Bits of one digit_t, scaled down from 8 * sizeof(digit_t) so that a
\* vector of BW bits spans more than one word.
W == 2

bw == BW
nw == (bw + W - 1) \div W
Pow2(n) == 2 ^ n
NBits == nw * W
Top == Pow2(NBits)
Words == 0 .. (Top - 1)
Modulus == Pow2(bw)
\* overflow-free vectors
Vects == 0 .. (Modulus - 1)

RECURSIVE BitAnd(_, _, _)
BitAnd(a, b, n) ==
    IF n = 0 THEN 0
    ELSE (IF a % 2 = 1 /\ b % 2 = 1 THEN 1 ELSE 0) + 2 * BitAnd(a \div 2, b \div 2, n - 1)
AndTable == [a \in Words |-> [b \in Words |-> BitAnd(a, b, NBits)]]
band(a, b) == AndTable[a][b]
bor(a, b) == a + b - band(a, b)
bxor(a, b) == a + b - 2 * band(a, b)
bnot(a) == Top - 1 - a
Log2Table == [v \in 1 .. (Top - 1) |-> CHOOSE k \in 0 .. (NBits - 1) : Pow2(k) <= v /\ v < Pow2(k + 1)]
\* position of the highest 1-bit of v # 0 over the nw words: word
\* log2(v) \div W, bit log2(v) % W of that word
log2(v) == Log2Table[v]
PopTable == [v \in Words |-> Cardinality({i \in 0 .. (NBits - 1) : (v \div Pow2(i)) % 2 = 1})]

\* mask of the top word
mask ==
    LET m == Pow2(bw % W) - 1 IN IF m = 0 THEN Pow2(W) - 1 ELSE m
\* ~mask in the top word, as a vector
NotMask == (Pow2(W) - 1 - mask) * Pow2(W * (nw - 1))

\* mpn_manager().compare on nw words
compare(a, b) == IF a < b THEN -1 ELSE IF a > b THEN 1 ELSE 0

get(v, i) == (v \div Pow2(i)) % 2 = 1
set_bit(v, i, b) ==
    IF b THEN (IF get(v, i) THEN v ELSE v + Pow2(i))
    ELSE (IF get(v, i) THEN v - Pow2(i) ELSE v)
has_overflow(v) == band(v, NotMask) # 0
clear_overflow_bits(v) == band(v, bnot(NotMask))
is_zero(v) == v % Modulus = 0
is_ones(v) == v % Modulus = Modulus - 1
\* decrement modulo 2^bw
sub1(v) == (v - (v % Modulus)) + (((v % Modulus) + Modulus - 1) % Modulus)
\* mpn add of one on nw words followed by clear_overflow_bits
add_one(v) == clear_overflow_bits((v + 1) % Top)
\* mpn sub of one on nw words followed by clear_overflow_bits
sub_one(v) == clear_overflow_bits((v + Top - 1) % Top)

\* set_value(dst, n): writes the bw low bits of the rational n into dst,
\* then clears overflow
set_value(dst, n) == clear_overflow_bits((dst - (dst % Modulus)) + (n % Modulus))
\* get_value: sum of word[i] * 2^(i*W)
get_value(v) == v

is_power_of2(v) == PopTable[v] = 1

VARIABLES m_lo, m_hi, m_bits, fixed, eval, op, arg, ret, out
vars == <<m_lo, m_hi, m_bits, fixed, eval, op, arg, ret, out>>

\* the valuation as a value
This == [m_lo |-> m_lo, m_hi |-> m_hi, m_bits |-> m_bits, fixed |-> fixed, eval |-> eval]

\* an in_range that admits the upper end m_hi of the interval
in_range_closed(s, v) ==
    LET c == compare(s.m_lo, s.m_hi) IN
    IF c = 0 THEN TRUE
    ELSE IF c < 0 THEN compare(s.m_lo, v) <= 0 /\ compare(v, s.m_hi) <= 0
    ELSE compare(s.m_lo, v) <= 0 \/ compare(v, s.m_hi) <= 0
in_range(s, v) ==
    LET c == compare(s.m_lo, s.m_hi) IN
    IF c = 0 THEN TRUE
    ELSE IF c < 0 THEN compare(s.m_lo, v) <= 0 /\ compare(v, s.m_hi) < 0
    ELSE compare(s.m_lo, v) <= 0 \/ compare(v, s.m_hi) < 0

\* a can_set that does not look at the fixed bits
can_set_unfixed(s, v) == in_range(s, v)
can_set(s, v) ==
    IF band(bxor(v, s.m_bits), s.fixed) # 0 THEN FALSE
    ELSE in_range(s, v)

round_up(s, dst) ==
    IF s.m_lo < s.m_hi
    THEN IF s.m_hi <= dst THEN [ok |-> FALSE, dst |-> dst]
         ELSE IF s.m_lo > dst THEN [ok |-> TRUE, dst |-> s.m_lo]
         ELSE [ok |-> TRUE, dst |-> dst]
    ELSE IF s.m_hi <= dst /\ s.m_lo > dst THEN [ok |-> TRUE, dst |-> s.m_lo]
    ELSE [ok |-> TRUE, dst |-> dst]

\* a round_down that steps one below dst where the code takes m_hi - 1
round_down_by_one(s, dst) ==
    IF s.m_lo < s.m_hi
    THEN IF s.m_lo > dst THEN [ok |-> FALSE, dst |-> dst]
         ELSE IF s.m_hi <= dst THEN [ok |-> TRUE, dst |-> sub1(dst)]
         ELSE [ok |-> TRUE, dst |-> dst]
    ELSE IF s.m_hi <= dst /\ s.m_lo > dst THEN [ok |-> TRUE, dst |-> sub1(dst)]
    ELSE [ok |-> TRUE, dst |-> dst]
round_down(s, dst) ==
    IF s.m_lo < s.m_hi
    THEN IF s.m_lo > dst THEN [ok |-> FALSE, dst |-> dst]
         ELSE IF s.m_hi <= dst THEN [ok |-> TRUE, dst |-> sub1(s.m_hi)]
         ELSE [ok |-> TRUE, dst |-> dst]
    ELSE IF s.m_hi <= dst /\ s.m_lo > dst THEN [ok |-> TRUE, dst |-> sub1(s.m_hi)]
    ELSE [ok |-> TRUE, dst |-> dst]

\* the bits of the words below word i
LowWords(i) == Pow2(W * i) - 1
\* the bits of word i
WordBits(i) == (Pow2(W) - 1) * Pow2(W * i)

\* phase A of get_at_most: the two loops over the words
at_most_bits(s, src) ==
    LET dst0 == band(src, bor(bnot(s.fixed), s.m_bits))
        diff == band(bnot(dst0), src)
    IN IF diff = 0 THEN dst0
       ELSE LET i == log2(diff) \div W
                idx == log2(diff) % W
                msk == (Pow2(idx) - 1) * Pow2(W * i)
                dsti == bor(band(bnot(s.fixed), msk), band(dst0, WordBits(i)))
                low == band(bor(bnot(s.fixed), s.m_bits), LowWords(i))
            IN band(dst0, bnot(bor(WordBits(i), LowWords(i)))) + dsti + low

get_at_most(s, src) == round_down(s, at_most_bits(s, src))

\* phase A of get_at_least
at_least_bits(s, src) ==
    LET dst0 == bor(band(bnot(s.fixed), src), band(s.fixed, s.m_bits))
        diff == band(dst0, bnot(src))
    IN IF diff = 0 THEN dst0
       ELSE LET i == log2(diff) \div W
                idx == log2(diff) % W
                msk == Pow2(idx) * Pow2(W * i)
                dsti == band(band(dst0, WordBits(i)), bor(s.fixed, msk))
                low == band(band(dst0, s.fixed), LowWords(i))
            IN band(dst0, bnot(bor(WordBits(i), LowWords(i)))) + dsti + low

get_at_least(s, src) == round_up(s, at_least_bits(s, src))

\* try_set: commit src to the working assignment when it is feasible
try_set(s, src) ==
    IF ~can_set(s, src) THEN [ok |-> FALSE, s |-> s]
    ELSE [ok |-> TRUE, s |-> [s EXCEPT !.eval = clear_overflow_bits(src)]]

\* free 1-bits of dst among which set_random_below picks idx
below_candidates(s, dst) == {i \in 0 .. (bw - 1) : get(dst, i) /\ ~get(s.fixed, i)}

\* idx is an outcome of the draws r() % ++n of set_random_below on dst
can_draw(s, dst, idx) ==
    is_zero(dst) \/ below_candidates(s, dst) = {} \/ idx \in below_candidates(s, dst)

\* set_random_below with the random draws made explicit: idx is the picked
\* bit, rnd holds the values drawn for the free bits below it
set_random_below(s, dst, idx, rnd) ==
    IF is_zero(dst) THEN dst
    ELSE IF below_candidates(s, dst) = {} THEN dst
    ELSE LET lowfree == band(bnot(s.fixed), Pow2(idx) - 1)
         IN band(set_bit(dst, idx, FALSE), bnot(lowfree)) + band(rnd, lowfree)

\* set_random_above: rnd holds the words drawn by random_bits
set_random_above(s, dst, rnd) == bor(dst, band(rnd, bnot(s.fixed)))

RECURSIVE round_down_pred(_, _, _, _)
\* round_down(dst, is_feasible) with is_feasible(t) = hi >= t && in_range(t)
round_down_pred(s, hi_q, dst, i) ==
    IF (hi_q >= dst /\ in_range(s, dst)) \/ i = 0 THEN dst
    ELSE round_down_pred(s, hi_q,
            IF ~get(s.fixed, i - 1) /\ get(dst, i - 1) THEN set_bit(dst, i - 1, FALSE) ELSE dst,
            i - 1)

RECURSIVE round_up_pred(_, _, _, _)
\* round_up(dst, is_feasible) with is_feasible(t) = lo <= t && in_range(t)
round_up_pred(s, lo_q, dst, i) ==
    IF (lo_q <= dst /\ in_range(s, dst)) \/ i >= bw THEN dst
    ELSE round_up_pred(s, lo_q,
            IF ~get(s.fixed, i) /\ ~get(dst, i) THEN set_bit(dst, i, TRUE) ELSE dst,
            i + 1)

RECURSIVE to_nat_loop(_, _, _, _, _)
\* the loop of to_nat over the bits i of d, with p = 2^i and the value of
\* the bits below i
to_nat_loop(d, max_n, i, p, value) ==
    IF i >= bw THEN value
    ELSE IF p >= max_n
         THEN IF \E j \in i .. (bw - 1) : get(d, j) THEN max_n ELSE value
         ELSE to_nat_loop(d, max_n, i + 1, 2 * p, IF get(d, i) THEN value + p ELSE value)

to_nat(s, max_n) == to_nat_loop(s.m_bits, max_n, 0, 1, 0)

\* the result of a set_random_* or set_repair call: the value returned, the
\* valuation after it, the scratch vector, and whether the draws can happen
Res(ok, s, tmp) == [ok |-> ok, s |-> s, tmp |-> tmp, drawn |-> TRUE]
NotDrawn(s, tmp) == [ok |-> FALSE, s |-> s, tmp |-> tmp, drawn |-> FALSE]
TrySet(s, tmp) == LET t == try_set(s, tmp) IN Res(t.ok, t.s, tmp)

set_random_at_most(s, src, coin, idx, rnd) ==
    LET g == get_at_most(s, src) IN
    IF ~g.ok THEN Res(FALSE, s, g.dst)
    ELSE IF is_zero(g.dst) \/ coin THEN TrySet(s, g.dst)
    ELSE IF ~can_draw(s, g.dst, idx) THEN NotDrawn(s, g.dst)
    ELSE LET tmp == set_random_below(s, g.dst, idx, rnd) IN
         IF s.m_lo = s.m_hi \/ is_zero(s.m_lo) \/ s.m_lo <= tmp THEN TrySet(s, tmp)
         ELSE TrySet(s, g.dst)

set_random_at_least(s, src, coin, rnd) ==
    LET g == get_at_least(s, src) IN
    IF ~g.ok THEN Res(FALSE, s, g.dst)
    ELSE IF is_ones(g.dst) \/ coin THEN TrySet(s, g.dst)
    ELSE LET tmp == set_random_above(s, g.dst, rnd) IN
         IF s.m_lo = s.m_hi \/ is_zero(s.m_hi) \/ s.m_hi > tmp THEN TrySet(s, tmp)
         ELSE TrySet(s, g.dst)

set_random_in_range(s, lo_q, hi_q, dir, coin, idx, rnd) ==
    IF dir
    THEN LET g == get_at_least(s, lo_q) IN
         IF ~g.ok THEN Res(FALSE, s, g.dst)
         ELSE IF hi_q < g.dst THEN Res(FALSE, s, g.dst)
         ELSE IF is_ones(g.dst) \/ coin THEN TrySet(s, g.dst)
         ELSE LET tmp == round_down_pred(s, hi_q, set_random_above(s, g.dst, rnd), bw) IN
              IF in_range(s, tmp) /\ lo_q <= tmp /\ hi_q >= tmp THEN TrySet(s, tmp)
              ELSE IF hi_q >= g.dst THEN TrySet(s, g.dst)
              ELSE Res(FALSE, s, g.dst)
    ELSE LET g == get_at_most(s, hi_q) IN
         IF ~g.ok THEN Res(FALSE, s, g.dst)
         ELSE IF lo_q > g.dst THEN Res(FALSE, s, g.dst)
         ELSE IF is_zero(g.dst) \/ coin THEN TrySet(s, g.dst)
         ELSE IF ~can_draw(s, g.dst, idx) THEN NotDrawn(s, g.dst)
         ELSE LET tmp == round_up_pred(s, lo_q, set_random_below(s, g.dst, idx, rnd), 0) IN
              IF in_range(s, tmp) /\ lo_q <= tmp /\ hi_q >= tmp THEN TrySet(s, tmp)
              ELSE IF lo_q <= g.dst THEN TrySet(s, g.dst)
              ELSE Res(FALSE, s, g.dst)

\* a first loop of set_repair that keeps every bit of dst
repair_bits_unmasked(s, dst0) == bor(dst0, band(s.fixed, s.m_bits))
\* first loop of set_repair: dst keeps its free bits and takes the fixed
\* bits of m_bits
repair_bits(s, dst0) == bor(band(bnot(s.fixed), dst0), band(s.fixed, s.m_bits))

\* a set_repair whose fallback repeats the direction that failed
set_repair_same_direction(s, try_down, dst0) ==
    LET dst == repair_bits(s, dst0)
        r1 == IF try_down THEN round_down(s, dst) ELSE round_up(s, dst)
        r2 == IF r1.ok THEN r1
              ELSE IF try_down THEN round_down(s, r1.dst) ELSE round_up(s, r1.dst)
    IN IF ~r2.ok THEN Res(FALSE, s, r2.dst)
       ELSE Res(TRUE, [s EXCEPT !.eval = r2.dst], r2.dst)
\* set_repair: ok is FALSE when the VERIFY on the fallback direction fails
set_repair(s, try_down, dst0) ==
    LET dst == repair_bits(s, dst0)
        r1 == IF try_down THEN round_down(s, dst) ELSE round_up(s, dst)
        r2 == IF r1.ok THEN r1
              ELSE IF try_down THEN round_up(s, r1.dst) ELSE round_down(s, r1.dst)
    IN IF ~r2.ok THEN Res(FALSE, s, r2.dst)
       ELSE Res(TRUE, [s EXCEPT !.eval = r2.dst], r2.dst)

commit_eval(s) == [s EXCEPT !.m_bits = s.eval]

\* a tightening of lo that does not compare l with old_lo
tighten_lo_linear_unchecked(old_lo, old_hi, l) == l < old_hi
\* linear interval: lo is tightened when old_lo < l && l < old_hi
tighten_lo_linear(old_lo, old_hi, l) == old_lo < l /\ l < old_hi
\* linear interval: hi is tightened when old_hi < h && h < old_hi
tighten_hi_linear(old_lo, old_hi, h) == old_hi < h /\ h < old_hi
\* wrap interval: lo is tightened when old_lo < l || l < old_hi
tighten_lo_wrap(old_lo, old_hi, l) == old_lo < l \/ l < old_hi
\* wrap interval: the if / else if that tightens hi, old_lo already updated
tighten_hi_wrap(old_lo, old_hi, h) ==
    IF old_lo < h /\ h < old_hi THEN TRUE
    ELSE old_hi < old_lo /\ (h < old_hi \/ old_lo < h)

add_range(s, l0, h0) ==
    LET l == l0 % Modulus
        h == h0 % Modulus
    IN IF h = l THEN s
       ELSE
         LET old_lo == get_value(s.m_lo)
             old_hi == get_value(s.m_hi)
             set_lo == IF s.m_lo = s.m_hi THEN TRUE
                       ELSE IF old_lo < old_hi THEN tighten_lo_linear(old_lo, old_hi, l)
                       ELSE tighten_lo_wrap(old_lo, old_hi, l)
             old_lo2 == IF set_lo THEN l ELSE old_lo
             set_hi == IF s.m_lo = s.m_hi THEN TRUE
                       ELSE IF old_lo < old_hi THEN tighten_hi_linear(old_lo2, old_hi, h)
                       ELSE tighten_hi_wrap(old_lo2, old_hi, h)
             s1 == [s EXCEPT !.m_lo = IF set_lo THEN set_value(s.m_lo, l) ELSE s.m_lo,
                             !.m_hi = IF set_hi THEN set_value(s.m_hi, h) ELSE s.m_hi]
         IN IF ~in_range(s1, s1.eval) THEN [s1 EXCEPT !.eval = s1.m_lo] ELSE s1

\* positions i < bw where a fixed bit of m_bits differs from v
disagree(s, v) == {i \in 0 .. (bw - 1) : get(s.fixed, i) /\ get(s.m_bits, i) # get(v, i)}
Max(S) == CHOOSE x \in S : \A y \in S : y <= x
\* the bw low bits of fixed & m_bits
fixed_bits(s) == band(s.fixed, s.m_bits) % Modulus
\* the bw low bits of ~fixed | m_bits
free_ones(s) == bor(bnot(s.fixed), s.m_bits) % Modulus

\* first loop of init_fixed: tighten m_lo against the fixed bits
tighten_lo(s) ==
    IF disagree(s, s.m_lo) = {} THEN s.m_lo
    ELSE LET i == Max(disagree(s, s.m_lo)) IN
         IF get(s.m_bits, i)
         THEN (s.m_lo - (s.m_lo % Pow2(i + 1))) + Pow2(i) + (fixed_bits(s) % Pow2(i))
         ELSE (s.m_lo - (s.m_lo % Modulus)) + fixed_bits(s)

\* second loop of init_fixed: tighten m_hi - 1 against the fixed bits
tighten_hi(s) ==
    LET hi1 == sub_one(s.m_hi) IN
    IF disagree(s, hi1) = {} THEN s.m_hi
    ELSE LET i == Max(disagree(s, hi1))
             h2 == IF get(hi1, i)
                   THEN (hi1 - (hi1 % Pow2(i + 1))) + (free_ones(s) % Pow2(i))
                   ELSE (hi1 - (hi1 % Modulus)) + fixed_bits(s)
         IN add_one(h2)

\* set_fixed_bit(i, b) for every position i of the mask I, b the bit i of v
set_fixed_bits(s, I, v) ==
    LET new == band(I, bnot(s.fixed)) IN
    [s EXCEPT !.fixed = bor(s.fixed, I),
              !.eval = bor(band(s.eval, bnot(new)), band(v, new))]

\* a fix_msb that pins, for a power of two m_hi, the bit below its set bit
fix_msb_below(s) ==
    IF s.m_lo < s.m_hi
    THEN LET top == log2(s.m_hi % Modulus)
             s1 == set_fixed_bits(s, (Modulus - 1) - (Pow2(top + 1) - 1), 0)
         IN IF is_power_of2(s1.m_hi) /\ top > 0
            THEN set_fixed_bits(s1, Pow2(top - 1), 0) ELSE s1
    ELSE s
\* "set most significant bits" of init_fixed
fix_msb(s) ==
    IF s.m_lo < s.m_hi
    THEN LET top == log2(s.m_hi % Modulus)
             s1 == set_fixed_bits(s, (Modulus - 1) - (Pow2(top + 1) - 1), 0)
         IN IF is_power_of2(s1.m_hi) THEN set_fixed_bits(s1, Pow2(top), 0) ELSE s1
    ELSE s

\* "lo + 1 = hi: then bits = lo" of init_fixed
fix_single(s) ==
    IF s.m_hi = add_one(s.m_lo) THEN set_fixed_bits(s, Modulus - 1, s.m_lo) ELSE s

init_fixed(s) ==
    IF s.m_lo = s.m_hi THEN s
    ELSE LET s1 == [s EXCEPT !.m_lo = tighten_lo(s)]
             s2 == [s1 EXCEPT !.m_hi = tighten_hi(s1)]
         IN fix_single(fix_msb(s2))

Init ==
    /\ m_lo = 0
    /\ m_hi = 0
    /\ m_bits = 0
    /\ fixed = NotMask
    /\ eval = 0
    /\ op = "new"
    /\ arg = 0
    /\ ret = TRUE
    /\ out = 0

\* the valuation variables after an operation that yields s
Becomes(s) ==
    /\ m_lo' = s.m_lo
    /\ m_hi' = s.m_hi
    /\ m_bits' = s.m_bits
    /\ fixed' = s.fixed
    /\ eval' = s.eval

\* values a caller passes to add_range: the last one needs the mod
RangeArgs == 0 .. Modulus

\* outcomes of the draws of set_random_below: the picked bit and the bits
\* drawn for the positions below it
Draws == {d \in (0 .. (bw - 1)) \X Vects : d[2] < Pow2(d[1])}
\* every outcome of the coin and of the draws of set_random_below
CoinDraws == {<<TRUE, 0, 0>>} \cup {<<FALSE, d[1], d[2]>> : d \in Draws}

AddRange(l, h) ==
    /\ is_zero(fixed)
    /\ \E s \in {add_range(This, l, h)} : Becomes(s)
    /\ op' = "add_range"
    /\ arg' = 0
    /\ ret' = TRUE
    /\ out' = 0

InitFixed ==
    \E s \in {init_fixed(This)} :
    /\ Becomes(s)
    /\ op' = "init_fixed"
    /\ arg' = 0
    /\ ret' = TRUE
    /\ out' = 0

CommitEval ==
    \E s \in {commit_eval(This)} :
    /\ Becomes(s)
    /\ op' = "commit_eval"
    /\ arg' = 0
    /\ ret' = TRUE
    /\ out' = 0

SetRepair(try_down, dst) ==
    \E r \in {set_repair(This, try_down, dst)} :
    /\ Becomes(r.s)
    /\ op' = IF r.ok THEN "set_repair" ELSE "verify_failed"
    /\ arg' = 0
    /\ ret' = r.ok
    /\ out' = 0

SetRandomAtMost(src, coin, idx, rnd) ==
    \E r \in {set_random_at_most(This, src, coin, idx, rnd)} :
    /\ r.drawn
    /\ Becomes(r.s)
    /\ op' = "set_random_at_most"
    /\ arg' = 0
    /\ ret' = r.ok
    /\ out' = 0

SetRandomAtLeast(src, coin, rnd) ==
    \E r \in {set_random_at_least(This, src, coin, rnd)} :
    /\ Becomes(r.s)
    /\ op' = "set_random_at_least"
    /\ arg' = 0
    /\ ret' = r.ok
    /\ out' = 0

SetRandomInRange(lo_q, hi_q, dir, coin, idx, rnd) ==
    \E r \in {set_random_in_range(This, lo_q, hi_q, dir, coin, idx, rnd)} :
    /\ r.drawn
    /\ Becomes(r.s)
    /\ op' = "set_random_in_range"
    /\ arg' = 0
    /\ ret' = r.ok
    /\ out' = 0

GetAtMost(src) ==
    \E r \in {get_at_most(This, src)} :
    /\ op' = "get_at_most"
    /\ arg' = src
    /\ ret' = r.ok
    /\ out' = r.dst
    /\ UNCHANGED <<m_lo, m_hi, m_bits, fixed, eval>>

GetAtLeast(src) ==
    \E r \in {get_at_least(This, src)} :
    /\ op' = "get_at_least"
    /\ arg' = src
    /\ ret' = r.ok
    /\ out' = r.dst
    /\ UNCHANGED <<m_lo, m_hi, m_bits, fixed, eval>>

InRange(v) ==
    /\ op' = "in_range"
    /\ arg' = v
    /\ ret' = in_range(This, v)
    /\ out' = 0
    /\ UNCHANGED <<m_lo, m_hi, m_bits, fixed, eval>>

CanSet(v) ==
    /\ op' = "can_set"
    /\ arg' = v
    /\ ret' = can_set(This, v)
    /\ out' = 0
    /\ UNCHANGED <<m_lo, m_hi, m_bits, fixed, eval>>

RoundUp(dst) ==
    \E r \in {round_up(This, dst)} :
    /\ op' = "round_up"
    /\ arg' = dst
    /\ ret' = r.ok
    /\ out' = r.dst
    /\ UNCHANGED <<m_lo, m_hi, m_bits, fixed, eval>>

RoundDown(dst) ==
    \E r \in {round_down(This, dst)} :
    /\ op' = "round_down"
    /\ arg' = dst
    /\ ret' = r.ok
    /\ out' = r.dst
    /\ UNCHANGED <<m_lo, m_hi, m_bits, fixed, eval>>

ToNat(max_n) ==
    /\ op' = "to_nat"
    /\ arg' = max_n
    /\ ret' = TRUE
    /\ out' = to_nat(This, max_n)
    /\ UNCHANGED <<m_lo, m_hi, m_bits, fixed, eval>>

\* a caller pins bit i to b: fixed.set(i, true) with bits.set(i, b)
Pin(i, b) ==
    /\ ~get(fixed, i)
    /\ m_bits' = set_bit(m_bits, i, b)
    /\ fixed' = set_bit(fixed, i, TRUE)
    /\ UNCHANGED <<m_lo, m_hi, eval>>
    /\ op' = "pin"
    /\ arg' = 0
    /\ ret' = TRUE
    /\ out' = 0

\* bounds a caller passes to set_random_in_range
QueryBounds == {0, Modulus \div 2, Modulus - 1}

Mutate ==
    \/ \E l \in RangeArgs, h \in RangeArgs : AddRange(l, h)
    \/ InitFixed
    \/ CommitEval
    \/ \E try_down \in BOOLEAN, dst \in Vects : SetRepair(try_down, dst)
    \/ \E src \in Vects : SetRandomAtMost(src, TRUE, 0, 0)
    \/ \E src \in Vects, d \in Draws : SetRandomAtMost(src, FALSE, d[1], d[2])
    \/ \E src \in Vects : SetRandomAtLeast(src, TRUE, 0)
    \/ \E src \in Vects, rnd \in Vects : SetRandomAtLeast(src, FALSE, rnd)
    \/ \E lo_q \in QueryBounds, hi_q \in QueryBounds, dir \in BOOLEAN :
          SetRandomInRange(lo_q, hi_q, dir, TRUE, 0, 0)
    \/ \E lo_q \in QueryBounds, hi_q \in QueryBounds, rnd \in Vects :
          SetRandomInRange(lo_q, hi_q, TRUE, FALSE, 0, rnd)
    \/ \E lo_q \in QueryBounds, hi_q \in QueryBounds, d \in Draws :
          SetRandomInRange(lo_q, hi_q, FALSE, FALSE, d[1], d[2])

\* get_at_most and get_at_least leave the valuation as it is: what can
\* follow a query is what can follow the state it was asked in, so the
\* model asks a query as the last step of a run.
Queried == op \in {"get_at_most", "get_at_least"}

Query ==
    \/ \E src \in Vects : GetAtMost(src)
    \/ \E src \in Vects : GetAtLeast(src)

Next ==
    \/ ~Queried /\ Mutate
    \/ ~Queried /\ Query

\* the lifecycle of a valuation: ranges, init_fixed, repair, sampling, commit
Spec == Init /\ [][Next]_vars

NextRange ==
    \/ \E l \in RangeArgs, h \in RangeArgs : AddRange(l, h)
    \/ CommitEval

\* a valuation that receives ranges, with no bit fixed
SpecRange == Init /\ [][NextRange]_vars

\* no init_fixed has run yet
BeforeInitFixed == op \in {"new", "add_range", "pin"}

NextPin ==
    \/ \E l \in RangeArgs, h \in RangeArgs : AddRange(l, h)
    \/ \E i \in 0 .. (bw - 1), b \in BOOLEAN : BeforeInitFixed /\ Pin(i, b)
    \/ InitFixed

\* ranges, then bits pinned by the caller, then init_fixed
SpecPin == Init /\ [][NextPin]_vars

\* values a caller passes to to_nat as max_n
MaxNats == 0 .. Modulus

NextNat ==
    \/ \E l \in RangeArgs, h \in RangeArgs : AddRange(l, h)
    \/ CommitEval
    \/ \E max_n \in MaxNats : ToNat(max_n)

\* ranges and commits, with to_nat read off the committed bits
SpecNat == Init /\ [][NextNat]_vars

\* in_range, can_set and the roundings leave the valuation as it is: the
\* model asks them as the last step of a run
Asked == op \in {"in_range", "can_set", "round_up", "round_down"}

Ask ==
    \/ \E v \in Vects : InRange(v)
    \/ \E v \in Vects : CanSet(v)
    \/ \E dst \in Vects : RoundUp(dst)
    \/ \E dst \in Vects : RoundDown(dst)

NextQuery ==
    \/ ~Asked /\ \E l \in RangeArgs, h \in RangeArgs : AddRange(l, h)
    \/ ~Asked /\ InitFixed
    \/ ~Asked /\ CommitEval
    \/ ~Asked /\ Ask

\* ranges, init_fixed and commits, with the predicates and the interval
\* roundings asked in every state
SpecQuery == Init /\ [][NextQuery]_vars

\* words as random_bits draws them and as a caller leaves them in a scratch
\* vector: the bits above bw are not cleared (here all of them are set)
RawWords == {w \in Words : band(w, NotMask) = NotMask}

\* interval bounds at the ends and the middle of the value space
EdgeArgs == QueryBounds \cup {Modulus}
\* lower and upper bounds a caller passes to set_random_in_range
LowBounds == {0, Modulus \div 2}
HighBounds == {Modulus \div 2, Modulus - 1}

NextWords ==
    \/ \E l \in EdgeArgs, h \in EdgeArgs : AddRange(l, h)
    \/ InitFixed
    \/ CommitEval
    \/ \E try_down \in BOOLEAN, dst \in RawWords : SetRepair(try_down, dst)
    \/ \E src \in QueryBounds, c \in CoinDraws : SetRandomAtMost(src, c[1], c[2], c[3])
    \/ \E src \in QueryBounds, coin \in BOOLEAN, rnd \in RawWords :
          SetRandomAtLeast(src, coin, rnd)
    \/ \E lo_q \in LowBounds, hi_q \in HighBounds, coin \in BOOLEAN, rnd \in RawWords :
          SetRandomInRange(lo_q, hi_q, TRUE, coin, 0, rnd)
    \/ \E lo_q \in LowBounds, hi_q \in HighBounds, c \in CoinDraws :
          SetRandomInRange(lo_q, hi_q, FALSE, c[1], c[2], c[3])

\* the mutating operations fed with raw words
SpecWords == Init /\ [][NextWords]_vars

\* v lies in the circular interval [lo, hi) modulo 2^bw
InInterval(lo, hi, v) ==
    IF lo = hi THEN TRUE
    ELSE IF lo < hi THEN lo <= v /\ v < hi
    ELSE v < hi \/ lo <= v
\* v agrees with m_bits on every fixed bit
AgreesOnFixed(v) == \A i \in 0 .. (bw - 1) : get(fixed, i) => (get(v, i) <=> get(m_bits, i))
\* the feasible set of the valuation
Feasible(v) == AgreesOnFixed(v) /\ InInterval(m_lo, m_hi, v)
FeasibleSet == {v \in Vects : Feasible(v)}
\* the values in_range admits
RangeSet == {v \in Vects : in_range(This, v)}
Mutators == {"add_range", "init_fixed", "set_repair", "commit_eval",
             "set_random_at_most", "set_random_at_least", "set_random_in_range"}

\* C1: whenever get_at_most(src, dst) returns true, dst <= src, dst is
\* feasible and no feasible value v has dst < v <= src.
AtMostIsLargestFeasible ==
    (op = "get_at_most" /\ ret) =>
        /\ out <= arg
        /\ out \in FeasibleSet
        /\ ~\E v \in FeasibleSet : out < v /\ v <= arg

\* C2: whenever get_at_least(src, dst) returns true, dst >= src, dst is
\* feasible and no feasible value v has src <= v < dst.
AtLeastIsSmallestFeasible ==
    (op = "get_at_least" /\ ret) =>
        /\ out >= arg
        /\ out \in FeasibleSet
        /\ ~\E v \in FeasibleSet : arg <= v /\ v < out

\* C3: get_at_most returns false exactly when no feasible value <= src
\* exists, and get_at_least exactly when no feasible value >= src exists.
FalseIffNoFeasible ==
    /\ op = "get_at_most" => (~ret <=> ~\E v \in FeasibleSet : v <= arg)
    /\ op = "get_at_least" => (~ret <=> ~\E v \in FeasibleSet : v >= arg)

\* C4: in every state reached by add_range, init_fixed, set_repair,
\* set_random_* and commit_eval, m_bits and eval agree on every fixed bit
\* (the check at the start of commit_eval).
FixedBitsAgree == band(fixed, bxor(m_bits, eval)) = 0

\* C5: after any successful mutating operation can_set(m_bits) is true.
BitsCanSet == (op \in Mutators /\ ret) => can_set(This, m_bits)

\* C6: after set_repair returns, the value it committed agrees with m_bits
\* on every fixed bit and lies in [m_lo, m_hi).
RepairIsFeasible == op = "set_repair" => eval \in FeasibleSet

\* C7: add_range never widens the interval: the values in_range admits
\* after the call are among those it admitted before.
AddRangeNeverWidens == [][op' = "add_range" => RangeSet' \subseteq RangeSet]_vars
\* add_range has narrowed a proper interval: the value committed while it
\* was in range is no longer in range
RangeNarrowed == op = "add_range" /\ m_bits # 0 /\ ~in_range(This, m_bits)

\* C8: every value in range before add_range(l, h) that also lies in
\* [l mod 2^bw, h mod 2^bw) is in range after the call.
AddRangeKeepsIntersection ==
    is_zero(fixed) =>
        \A l \in RangeArgs, h \in RangeArgs : \A v \in Vects :
            (in_range(This, v) /\ InInterval(l % Modulus, h % Modulus, v))
                => in_range(add_range(This, l, h), v)

\* C9: after ranges were added and bits pinned, one call of init_fixed
\* yields a feasible set that is a subset of the one before the call.
InitFixedShrinks ==
    [][(BeforeInitFixed /\ op' = "init_fixed") => FeasibleSet' \subseteq FeasibleSet]_vars

\* C10: init_fixed is idempotent: a second call right after a call leaves
\* m_lo, m_hi, fixed, m_bits and eval as they are.
InitFixedIdempotent == op = "init_fixed" => init_fixed(This) = This

\* the valuation a fresh one becomes by add_range(v, v + 1): nothing fixed,
\* nothing committed, the interval [m_lo, m_lo + 1) and eval moved into it
SingleValueRange ==
    /\ op = "add_range"
    /\ is_zero(fixed)
    /\ m_bits = 0
    /\ m_hi = (m_lo + 1) % Modulus
    /\ eval = m_lo

\* C11: starting from a fresh valuation, add_range(v, v + 1) followed by
\* init_fixed() leaves every bit pinned and m_bits equal to v.
SingleValueForced ==
    [][(SingleValueRange /\ op' = "init_fixed") =>
            (is_ones(fixed') /\ m_bits' = m_lo /\ m_lo' = m_lo)]_vars

\* C12 as stated: in every reachable state none of m_lo, m_hi, m_bits,
\* fixed, eval has an overflow bit.
NoOverflow ==
    /\ ~has_overflow(m_lo)
    /\ ~has_overflow(m_hi)
    /\ ~has_overflow(m_bits)
    /\ ~has_overflow(fixed)
    /\ ~has_overflow(eval)

\* C12 amended: in every reachable state none of m_lo, m_hi, m_bits, eval
\* has an overflow bit, and fixed holds exactly the overflow bits ~mask of
\* the top word above its bw low bits.
NoOverflowButFixed ==
    /\ ~has_overflow(m_lo)
    /\ ~has_overflow(m_hi)
    /\ ~has_overflow(m_bits)
    /\ ~has_overflow(eval)
    /\ band(fixed, NotMask) = NotMask
\* a draw of raw words has set every free bit of eval, in a width that
\* leaves overflow bits in the top word
RawDrawCommitted ==
    /\ NotMask # 0
    /\ op = "set_random_at_least"
    /\ ret
    /\ is_ones(eval)
    /\ ~is_ones(fixed)

\* the smaller of two numbers
Min(a, b) == IF a <= b THEN a ELSE b

\* C13: to_nat(max_n) equals min(value(m_bits), max_n) for every m_bits and
\* every max_n; in particular the result never exceeds max_n.
ToNatSaturates == op = "to_nat" => out = Min(get_value(m_bits), arg)

\* C14: for every interval and every overflow-free v, in_range(v) is true
\* exactly when v lies in [m_lo, m_hi) modulo 2^bw.
InRangeIsInterval == op = "in_range" => (ret <=> InInterval(m_lo, m_hi, arg))
\* in_range has admitted a value below m_hi of an interval that wraps
InRangeWrapped == op = "in_range" /\ m_lo > m_hi /\ m_hi > 0 /\ arg < m_hi /\ ret

\* C15: for every valuation and every overflow-free v, can_set(v) is true
\* exactly when v agrees with m_bits on every fixed bit and in_range(v)
\* holds.
CanSetIsAgreeInRange ==
    op = "can_set" => (ret <=> (AgreesOnFixed(arg) /\ in_range(This, arg)))
\* can_set has refused a value of the interval for a fixed bit
CanSetRefusedFixed == op = "can_set" /\ ~ret /\ in_range(This, arg) /\ m_lo # m_hi

\* C16: the interval roundings are idempotent: for every interval and every
\* dst on which round_up (round_down) succeeds, the same rounding applied
\* to its result succeeds and leaves it unchanged.
RoundIdempotent ==
    /\ (op = "round_up" /\ ret) => round_up(This, out) = [ok |-> TRUE, dst |-> out]
    /\ (op = "round_down" /\ ret) => round_down(This, out) = [ok |-> TRUE, dst |-> out]
\* round_down has moved a dst from above the interval to m_hi - 1
RoundedDown == op = "round_down" /\ ret /\ out # arg /\ m_lo < m_hi

\* C17: whenever set_random_at_most(src) returns true the value it commits
\* is feasible (can_set) and <= src; whenever set_random_at_least(src)
\* returns true the committed value is feasible and >= src; whenever
\* set_random_in_range(lo_q, hi_q) returns true the committed value is
\* feasible and lo_q <= it <= hi_q; for every outcome of the random source.
RandomCommitsWithinBound ==
    [][/\ op' = "set_random_at_most" =>
            \A src \in Vects, c \in CoinDraws :
                (SetRandomAtMost(src, c[1], c[2], c[3]) /\ ret')
                    => (can_set(This', eval') /\ eval' <= src)
       /\ op' = "set_random_at_least" =>
            \A src \in Vects, coin \in BOOLEAN, rnd \in Vects :
                (SetRandomAtLeast(src, coin, rnd) /\ ret')
                    => (can_set(This', eval') /\ eval' >= src)
       /\ op' = "set_random_in_range" =>
            \A lo_q \in QueryBounds, hi_q \in QueryBounds, dir \in BOOLEAN,
               c \in CoinDraws, rnd \in Vects :
                (SetRandomInRange(lo_q, hi_q, dir, c[1], c[2], IF dir THEN rnd ELSE c[3])
                    /\ ret')
                    => (can_set(This', eval') /\ lo_q <= eval' /\ eval' <= hi_q)]_vars

\* C18: in add_range(l, h) on a linear interval (m_lo < m_hi), m_hi is
\* tightened to h whenever m_lo < h < m_hi, and m_lo is tightened to l
\* whenever m_lo < l < m_hi (l, h taken modulo 2^bw, l # h).
AddRangeTightensLinear ==
    [][\A l \in RangeArgs, h \in RangeArgs :
          (m_lo < m_hi /\ (l % Modulus) # (h % Modulus) /\ AddRange(l, h)) =>
              /\ (m_lo < (h % Modulus) /\ (h % Modulus) < m_hi) => m_hi' = (h % Modulus)
              /\ (m_lo < (l % Modulus) /\ (l % Modulus) < m_hi) => m_lo' = (l % Modulus)]_vars

\* init_fixed has reached its step 3 with a linear interval whose m_hi is a
\* power of two (steps 1 and 2 have set m_lo and m_hi, step 3 keeps them)
PowerOfTwoStep == op' = "init_fixed" /\ m_lo # m_hi /\ m_lo' < m_hi' /\ is_power_of2(m_hi')

\* C19 as stated: when m_lo < m_hi and m_hi is a power of two, init_fixed
\* pins to 0 the bit immediately below the topmost set bit of m_hi, and
\* that bit is 0 in every value of [m_lo, m_hi).
PinsBitBelowTop ==
    [][(PowerOfTwoStep /\ log2(m_hi') > 0) =>
          LET b == log2(m_hi') - 1 IN
          /\ get(fixed', b)
          /\ ~get(fixed, b) => ~get(eval', b)
          /\ \A v \in Vects : InInterval(m_lo', m_hi', v) => ~get(v, b)]_vars

\* C19 amended: when m_lo < m_hi and m_hi is a power of two, the bit
\* init_fixed pins to 0 in addition to the leading zero bits of m_hi is the
\* topmost set bit of m_hi itself, and that bit is 0 in every value of
\* [m_lo, m_hi).
PinsTopBit ==
    [][PowerOfTwoStep =>
          LET b == log2(m_hi') IN
          /\ get(fixed', b)
          /\ ~get(fixed, b) => ~get(eval', b)
          /\ \A v \in Vects : InInterval(m_lo', m_hi', v) => ~get(v, b)]_vars
\* init_fixed has pinned the set bit of a power of two m_hi and left the
\* bit below it free
TopBitPinned ==
    /\ op = "init_fixed"
    /\ m_lo < m_hi
    /\ is_power_of2(m_hi)
    /\ log2(m_hi) > 0
    /\ get(fixed, log2(m_hi))
    /\ ~get(fixed, log2(m_hi) - 1)

\* C20: in set_repair, whenever the first rounding direction fails the
\* opposite rounding of the same dst succeeds, for every interval and every
\* dst: the VERIFY on the fallback never fails and set_repair returns true.
RepairFallbackSucceeds == op \in {"set_repair", "verify_failed"} => ret
\* set_repair has left eval at the upper end of a linear interval that
\* round_up refuses for some dst, so that only the fallback repairs it
RepairedByFallback ==
    /\ op = "set_repair"
    /\ ret
    /\ m_lo < m_hi
    /\ eval = sub1(m_hi)
    /\ \E dst \in RawWords : ~round_up(This, repair_bits(This, dst)).ok

\* C21: rounding keeps its direction: for every interval, the intervals
\* with m_hi = 0 included, whenever round_down(dst) returns true the new
\* dst is <= the old dst and in_range, and whenever round_up(dst) returns
\* true the new dst is >= the old dst and in_range.
RoundKeepsDirection ==
    /\ (op = "round_down" /\ ret) => (out <= arg /\ in_range(This, out))
    /\ (op = "round_up" /\ ret) => (out >= arg /\ in_range(This, out))
====
